---- MODULE Spec2Model ----
(***************************************************************************)
(* PayPal order orchestration: the token cache, the create-order,          *)
(* capture-order and webhook routes (server side) and the checkout page's  *)
(* createOrder / onApprove handlers (browser side).                        *)
(*                                                                         *)
(* Strings the code inspects character by character (amounts, order ids,   *)
(* e-mail addresses) are tuples of one-character strings.  Every await of  *)
(* an outbound fetch is a suspension point: the request is issued in one   *)
(* step and its response is consumed in a later one, so the flows          *)
(* interleave exactly where the JavaScript event loop lets them.           *)
(***************************************************************************)
EXTENDS Integers, Sequences, FiniteSets, TLC

\* ---------------------------------------------------------------- bounds
NumFlows == 2        \* concurrent route executions on the server
NumHandlers == 3     \* callback invocations of one checkout session
MaxTicks == 2        \* seconds the clock may advance
MaxTokenReqs == 2    \* token-endpoint requests issued in one run
MaxOrders == 2       \* orders the processor creates in one run

\* ------------------------------------------------- program constants
SafetyMarginSec == 60     \* (tokenCache.expires_in - 60)
MsPerSec == 1000          \* ... * 1000
RiskThresholdCents == 1000 \* numericAmount <= 10.00, in hundredths

Flows == 1..NumFlows
Handlers == 1..NumHandlers

\* ------------------------------------------------------------ strings
Digits == {"0", "1", "2", "3", "4", "5", "6", "7", "8", "9"}
UpperLetters == {"A", "B", "O", "X"}

DigitVal(c) ==
    CASE c = "0" -> 0 [] c = "1" -> 1 [] c = "2" -> 2 [] c = "3" -> 3
      [] c = "4" -> 4 [] c = "5" -> 5 [] c = "6" -> 6 [] c = "7" -> 7
      [] c = "8" -> 8 [] c = "9" -> 9

\* /^\d+$/ on a tuple of characters
AllDigits(s) == Len(s) > 0 /\ \A i \in 1..Len(s) : s[i] \in Digits

\* position of the first "." in s, 0 when there is none
DotAt(s) ==
    IF \E i \in 1..Len(s) : s[i] = "."
    THEN CHOOSE i \in 1..Len(s) : s[i] = "." /\ \A j \in 1..(i-1) : s[j] # "."
    ELSE 0

\* /^\d+(\.\d{2})?$/.test(amount)
AmountFormatOk(s) ==
    \/ AllDigits(s)
    \/ /\ DotAt(s) > 1
       /\ Len(s) = DotAt(s) + 2
       /\ AllDigits(SubSeq(s, 1, DotAt(s) - 1))
       /\ AllDigits(SubSeq(s, DotAt(s) + 1, Len(s)))

RECURSIVE DigitsValue(_)
DigitsValue(s) ==
    IF Len(s) = 0 THEN 0
    ELSE 10 * DigitsValue(SubSeq(s, 1, Len(s) - 1)) + DigitVal(s[Len(s)])

\* parseFloat(amount) of a string that passed AmountFormatOk, in hundredths
parseFloatCents(s) ==
    IF DotAt(s) = 0 THEN 100 * DigitsValue(s)
    ELSE 100 * DigitsValue(SubSeq(s, 1, DotAt(s) - 1))
         + DigitsValue(SubSeq(s, DotAt(s) + 1, Len(s)))

\* /^[A-Z0-9]+$/.test(orderID)
OrderIdFormatOk(s) ==
    Len(s) > 0 /\ \A i \in 1..Len(s) : s[i] \in (UpperLetters \cup Digits)

\* email.includes('@')
IncludesAt(s) == \E i \in 1..Len(s) : s[i] = "@"

\* the id the processor assigns to its n-th order
OrderIdOf(n) == <<"O", IF n = 1 THEN "1" ELSE IF n = 2 THEN "2" ELSE IF n = 3 THEN "3" ELSE "4">>

\* ------------------------------------------------------------- state
VARIABLES
    now,          \* Date.now(), in milliseconds
    credsSet,     \* PAYPAL_CLIENT_ID and PAYPAL_CLIENT_SECRET are both non-empty
    tokenCache,   \* the module-level tokenCache: {} is null, else one record
    tokenSeq,     \* token-endpoint requests issued so far (the n-th returns token n)
    nextOrder,    \* index of the next order the processor creates
    flows,        \* the route executions in progress
    riskLog,      \* history: <<order id, decision>> of every risk evaluation
    captureCalls, \* history: order ids sent to the processor's capture endpoint
    cancelCalls,  \* history: order ids sent to the processor's cancel endpoint
    pubIdSet,     \* NEXT_PUBLIC_PAYPAL_CLIENT_ID is non-empty
    isProcessing, \* the checkout page's isProcessing state
    error,        \* the checkout page's error state ("" is null)
    buttons,      \* the rendered PayPal Buttons: {} before initializePayPal, else
                  \* the isProcessing value their callbacks closed over
    paymentResult, \* the checkout page's paymentResult state (<<>> is null)
    handlers,     \* the createOrder / onApprove invocations in progress
    sdkOrders     \* order ids createOrder returned to the PayPal SDK

sessVars == <<pubIdSet, isProcessing, error, buttons, paymentResult, handlers,
              sdkOrders>>

vars == <<now, credsSet, tokenCache, tokenSeq, nextOrder, flows,
          riskLog, captureCalls, cancelCalls, sessVars>>

\* values a token response may carry in expires_in (seconds)
ExpiresInChoices == {SafetyMarginSec + 1}

\* request bodies of POST /api/paypal/create-order
AmountInputs ==
    { <<>>,                              \* amount absent or ""
      <<"1", "0", ".", "5">>,            \* "10.5"
      <<"1", "0", ".", "0", "0">>,       \* "10.00"
      <<"5", "0", "0", ".", "0", "0">> } \* "500.00"
EmailInputs == { <<>>, <<"a">>, <<"a", "@", "b">> }
CurrencyInputs == { "", "USD", "XXX" }   \* "" is an absent currency
CreateBodies ==
    { [json |-> TRUE, amount |-> a, currency |-> c, email |-> e] :
        a \in AmountInputs, c \in CurrencyInputs, e \in EmailInputs }
    \cup { [json |-> FALSE, amount |-> <<>>, currency |-> "", email |-> <<>>] }

\* request bodies of POST /api/paypal/capture-order
OrderIdInputs ==
    { <<>>, <<"o", "-", "1">>, <<"X", "9">>, OrderIdOf(1) }
CaptureBodies ==
    { [json |-> TRUE, orderID |-> o] : o \in OrderIdInputs }
    \cup { [json |-> FALSE, orderID |-> <<>>] }

\* what the processor may answer to POST /v2/checkout/orders/{id}/capture:
\* issue is the error body's issue name, which the code only logs
NoCaptureData == [http |-> "", units |-> <<>>, issue |-> ""]
CaptureStatuses == { "COMPLETED", "PENDING", "DECLINED" }
CaptureResponses ==
    { [http |-> h, units |-> <<>>, issue |-> ""] : h \in {"error", "neterr", "ok"} }
    \cup { [http |-> "error", units |-> <<>>, issue |-> "ORDER_ALREADY_CAPTURED"] }
    \cup { [http |-> "ok", units |-> <<[captures |-> <<>>]>>, issue |-> ""] }
    \cup { [http |-> "ok", issue |-> "",
             units |-> <<[captures |-> <<[status |-> st,
                                          amount |-> <<"1", "0", ".", "0", "0">>,
                                          currency |-> "USD"]>>]>>] :
             st \in CaptureStatuses }

\* what the processor may answer to the verify-webhook-signature call
VerifyResponses ==
    { [http |-> h, verification_status |-> ""] : h \in {"error", "neterr"} }
    \cup { [http |-> "ok", verification_status |-> v] : v \in {"SUCCESS", "FAILURE"} }

\* the five transmission headers of a webhook delivery
WebhookHeaders ==
    { "paypal-transmission-id", "paypal-transmission-time", "paypal-cert-url",
      "paypal-transmission-sig", "paypal-auth-algorithm" }

\* deliveries with every header, with exactly one missing, or with none
HeaderInputs == { WebhookHeaders \ {h} : h \in WebhookHeaders } \cup { WebhookHeaders, {} }

\* webhook event bodies: the event_type and whether resource is present
NoEvent == [type |-> "", resource |-> FALSE]
EventInputs ==
    { [type |-> "PAYMENT.CAPTURE.COMPLETED", resource |-> TRUE],
      [type |-> "CHECKOUT.ORDER.APPROVED", resource |-> FALSE] }

\* history of a flow's latest getAccessToken call: where the clock stood
\* against the cached token's lifetime at its entry, the token then cached,
\* the token-endpoint requests it issued, the token it returned and the token
\* the cache held right after its write; when it threw, what made it throw
\* (cause) and the message of the Error its caller received (err)
NoTok == [pos |-> "", seen |-> 0, reqs |-> 0, ret |-> 0, wrote |-> 0,
          cause |-> "", err |-> ""]

NoResp == [status |-> 0, success |-> "none", error |-> "", orderID |-> <<>>,
           capStatus |-> "", amount |-> <<>>, currency |-> ""]

IdleFlow ==
    [kind |-> "idle", pc |-> "idle", fn |-> "none", amount |-> <<>>, currency |-> "",
     orderID |-> <<>>, hdrs |-> {}, event |-> NoEvent, dispatched |-> FALSE,
     risk |-> "none", riskThrew |-> FALSE, http |-> "", captureData |-> NoCaptureData, tokReq |-> 0, called |-> {}, tok |-> NoTok,
     vstatus |-> "", isValid |-> "none", riskCalls |-> 0, inflight |-> {},
     resp |-> NoResp]

\* NextResponse.json({success: false, error}, {status})
Failure(status, msg) ==
    [NoResp EXCEPT !.status = status, !.success = "false", !.error = msg]

\* NextResponse.json({error}, {status}) of the webhook route
WebhookError(status, msg) ==
    [NoResp EXCEPT !.status = status, !.error = msg]

\* a callback invocation: which callback, where it stands, the flow serving
\* its fetch, data.orderID, how it ended, and whether it began while another
\* invocation's request was outstanding
\* (overlapped), or an onApprove request for the same order (twin)
IdleHandler ==
    [kind |-> "none", pc |-> "idle", flow |-> 0, orderID |-> <<>>, outcome |-> "",
     overlapped |-> FALSE, twin |-> FALSE]

Done(fl, r) == [fl EXCEPT !.pc = "done", !.resp = r, !.tokReq = 0]

InitCore ==
    /\ now = 0
    /\ credsSet \in BOOLEAN
    /\ tokenCache = {}
    /\ tokenSeq = 0
    /\ nextOrder = 1
    /\ flows = [f \in Flows |-> IdleFlow]
    /\ riskLog = {}
    /\ captureCalls = {}
    /\ cancelCalls = {}
    /\ isProcessing = FALSE
    /\ error = ""
    /\ buttons = {}
    /\ paymentResult = <<>>
    /\ handlers = [h \in Handlers |-> IdleHandler]
    /\ sdkOrders = {}

Init == InitCore /\ pubIdSet = TRUE

\* ------------------------------------------------------ getAccessToken
TheCache == CHOOSE c \in tokenCache : TRUE

\* a cache test that treats every cached token as expired
IsExpiredAlways(c, t) == TRUE

\* isExpired = Date.now() > created_at + (expires_in - 60) * 1000
IsExpired(c, t) == t > c.created_at + (c.expires_in - SafetyMarginSec) * MsPerSec

CacheUsable == tokenCache # {} /\ ~IsExpired(TheCache, now)

CachedToken == IF tokenCache = {} THEN 0 ELSE TheCache.access_token

\* the clock against the instant created_at + expires_in - 60 s of the cached
\* token: "none" with an empty cache, else "before", "at" or "after"
ClockPosition ==
    IF tokenCache = {} THEN "none"
    ELSE LET edge == TheCache.created_at
                     + TheCache.expires_in * MsPerSec - SafetyMarginSec * MsPerSec
         IN  IF now < edge THEN "before" ELSE IF now = edge THEN "at" ELSE "after"

\* getAccessToken returned token t to fl.fn, which issues its own fetch
\* without a further suspension point
TokenObtained(fl, t) ==
    [fl EXCEPT !.pc = "call", !.tokReq = 0, !.called = @ \cup {fl.fn}, !.tok.ret = t,
               !.inflight = (@ \ {"token"}) \cup {fl.fn}]

\* a createPayPalOrder whose catch block passes the cause on to the caller
CreateThrewLeaky(fl) ==
    Done(fl, Failure(500, IF fl.tok.cause # "" THEN fl.tok.cause ELSE fl.http))

\* a create-order route without its catch block: the exception escapes and
\* the framework answers 500 with no body of the route's
CreateThrewUncaught(fl) == Done(fl, [NoResp EXCEPT !.status = 500])

\* NextResponse.json({success: false, error: error.message}, {status: 500})
\* after createPayPalOrder threw 'Failed to create PayPal order'
CreateThrew(fl) == Done(fl, Failure(500, "Failed to create PayPal order"))

\* capturePayPalOrder returned {success: false, status: 'FAILED'}; the route
\* answers {success: false, error: 'Failed to capture payment'}, status 400
CaptureFailed(fl) == Done(fl, Failure(400, "Failed to capture payment"))

\* a cancelPayPalOrder that rethrows its failures into the route's catch
CancelRethrows(fl) ==
    IF fl.tok.ret = 0 \/ fl.http # "ok"
    THEN Done(fl, Failure(500, "Failed to cancel PayPal order"))
    ELSE Done(fl, Failure(403, "Transaction not approved due to risk assessment"))

\* cancelPayPalOrder returned (it never throws); the route answers 403
CancelReturned(fl) ==
    Done(fl, Failure(403, "Transaction not approved due to risk assessment"))

\* the boolean verifyWebhookSignature returned, as the flow's history keeps it
BoolStr(b) == IF b THEN "true" ELSE "false"

\* a webhook route that dispatches whatever verifyWebhookSignature returned
VerifyReturnedUnchecked(fl, isValid) ==
    Done([fl EXCEPT !.isValid = BoolStr(isValid), !.dispatched = TRUE],
         [NoResp EXCEPT !.status = 200, !.success = "true"])

\* the webhook route after verifyWebhookSignature returned isValid
VerifyReturned(fl, isValid) ==
    LET fv == [fl EXCEPT !.isValid = BoolStr(isValid)]
    IN  IF ~isValid THEN Done(fv, WebhookError(401, "Invalid webhook signature"))
        ELSE IF fv.event.type # "UNKNOWN" /\ ~fv.event.resource
             THEN Done(fv, WebhookError(500, "Cannot read properties of undefined"))
             ELSE Done([fv EXCEPT !.dispatched = TRUE],
                       [NoResp EXCEPT !.status = 200, !.success = "true"])

\* getAccessToken's catch block: whatever was thrown inside its try block
\* (cause), the caller receives new Error('Failed to authenticate with PayPal')
TokenThrew(fl, cause) ==
    [fl EXCEPT !.tok.cause = cause, !.tok.err = "Failed to authenticate with PayPal",
               !.inflight = @ \ {"token"}]

\* getAccessToken threw 'Failed to authenticate with PayPal' into fl.fn
TokenFailed(fl) ==
    CASE fl.fn = "create"  -> CreateThrew(fl)
      [] fl.fn = "capture" -> CaptureFailed(fl)
      [] fl.fn = "cancel"  -> CancelReturned(fl)
      [] fl.fn = "verify"  -> VerifyReturned(fl, FALSE)

\* the endpoint histories after fl.fn issued its fetch
LogCall(fl) ==
    /\ captureCalls' = IF fl.fn = "capture" THEN captureCalls \cup {fl.orderID}
                       ELSE captureCalls
    /\ cancelCalls' = IF fl.fn = "cancel" THEN cancelCalls \cup {fl.orderID}
                      ELSE cancelCalls

\* getAccessToken up to its first suspension point, entered by the flow fl
\* of slot f: the cache test, the credentials test and the fetch of
\* /v1/oauth2/token
GetTokenBegin(f, fl) ==
    LET t0 == [NoTok EXCEPT !.pos = ClockPosition, !.seen = CachedToken]
    IN  IF CacheUsable
        THEN /\ flows' = [flows EXCEPT ![f] =
                     TokenObtained([fl EXCEPT !.tok = t0], TheCache.access_token)]
             /\ LogCall(fl)
             /\ UNCHANGED tokenSeq
        ELSE IF ~credsSet
        THEN /\ flows' = [flows EXCEPT ![f] =
                     TokenFailed(TokenThrew([fl EXCEPT !.tok = t0], "credentials"))]
             /\ UNCHANGED <<tokenSeq, captureCalls, cancelCalls>>
        ELSE /\ tokenSeq < MaxTokenReqs
             /\ tokenSeq' = tokenSeq + 1
             /\ flows' = [flows EXCEPT ![f] =
                     [fl EXCEPT !.pc = "tokenWait", !.tokReq = tokenSeq + 1,
                                !.tok = [t0 EXCEPT !.reqs = 1],
                                !.inflight = @ \cup {"token"}]]
             /\ UNCHANGED <<captureCalls, cancelCalls>>

\* the flow of slot f runs on as fl: into getAccessToken when fl is about to
\* call it (no suspension point lies between), else it has answered
Proceed(f, fl) ==
    IF fl.pc = "token" THEN GetTokenBegin(f, fl)
    ELSE /\ flows' = [flows EXCEPT ![f] = fl]
         /\ UNCHANGED <<tokenSeq, captureCalls, cancelCalls>>

\* the token response: response.ok with a body, a non-success status, or a
\* rejected fetch
TokenResponses ==
    { [http |-> "ok", expires_in |-> e] : e \in ExpiresInChoices }
    \cup { [http |-> h, expires_in |-> 0] : h \in {"error", "neterr"} }

\* tokenCache = {...data, created_at: Date.now()}
CacheWrite(tokenNo, r) ==
    {[access_token |-> tokenNo, expires_in |-> r.expires_in, created_at |-> now]}

\* a getAccessToken that stores the response before testing response.ok
GetTokenEndCachesFailure(f, r) ==
    LET fl == flows[f]
    IN  /\ fl.pc = "tokenWait"
        /\ r \in TokenResponses
        /\ tokenCache' = CacheWrite(fl.tokReq, r)
        /\ IF r.http = "ok"
           THEN /\ flows' = [flows EXCEPT ![f] =
                        TokenObtained([fl EXCEPT !.tok.wrote =
                            (CHOOSE c \in CacheWrite(fl.tokReq, r) : TRUE).access_token],
                            fl.tokReq)]
                /\ LogCall(fl)
           ELSE /\ flows' = [flows EXCEPT ![f] =
                        TokenFailed(TokenThrew(fl, IF r.http = "error" THEN "status"
                                                   ELSE "transport"))]
                /\ UNCHANGED <<captureCalls, cancelCalls>>
        /\ UNCHANGED sessVars
        /\ UNCHANGED <<now, credsSet, tokenSeq, nextOrder, riskLog>>

\* getAccessToken from the token response on
GetTokenEnd(f, r) ==
    LET fl == flows[f]
    IN  /\ fl.pc = "tokenWait"
        /\ r \in TokenResponses
        /\ IF r.http = "ok"
           THEN /\ tokenCache' = CacheWrite(fl.tokReq, r)
                /\ flows' = [flows EXCEPT ![f] =
                        TokenObtained([fl EXCEPT !.tok.wrote =
                            (CHOOSE c \in CacheWrite(fl.tokReq, r) : TRUE).access_token],
                            fl.tokReq)]
                /\ LogCall(fl)
           ELSE /\ flows' = [flows EXCEPT ![f] =
                        TokenFailed(TokenThrew(fl, IF r.http = "error" THEN "status"
                                                   ELSE "transport"))]
                /\ UNCHANGED <<tokenCache, captureCalls, cancelCalls>>
        /\ UNCHANGED sessVars
        /\ UNCHANGED <<now, credsSet, tokenSeq, nextOrder, riskLog>>

\* ------------------------------------------- POST /api/paypal/create-order
\* the route up to its call of createPayPalOrder, which calls getAccessToken
CreateRouteEntry(body) ==
    LET fl == [IdleFlow EXCEPT !.kind = "create"]
    IN  IF ~body.json
        THEN Done(fl, Failure(500, "Unexpected end of JSON input"))
        ELSE IF body.amount = <<>>
        THEN Done(fl, Failure(400, "Amount is required"))
        ELSE IF ~AmountFormatOk(body.amount)
        THEN Done(fl, Failure(400, "Invalid amount format"))
        ELSE IF body.email # <<>> /\ ~IncludesAt(body.email)
        THEN Done(fl, Failure(400, "Invalid email format"))
        ELSE [fl EXCEPT !.pc = "token", !.fn = "create",
                        !.amount = body.amount,
                        !.currency = IF body.currency = "" THEN "USD"
                                     ELSE body.currency]

\* a request arrives at the create-order route
StartCreate(f, body) ==
    /\ flows[f].pc = "idle"
    /\ body \in CreateBodies
    /\ Proceed(f, CreateRouteEntry(body))
    /\ UNCHANGED sessVars
    /\ UNCHANGED <<now, credsSet, tokenCache, nextOrder, riskLog>>

\* a callRiskAPI without the small-amount shortcut
callRiskAPIRandomOnly(amount, rnd, threw) ==
    IF threw THEN FALSE ELSE rnd

\* a callRiskAPI whose catch block approves
callRiskAPIFailOpen(amount, rnd, threw) ==
    IF threw THEN TRUE
    ELSE IF parseFloatCents(amount) <= RiskThresholdCents THEN TRUE
    ELSE rnd

\* callRiskAPI: threw is an exception inside its try block, rnd is
\* Math.random() > 0.05
callRiskAPI(amount, rnd, threw) ==
    IF threw THEN FALSE
    ELSE IF parseFloatCents(amount) <= RiskThresholdCents THEN TRUE
    ELSE rnd

\* the route from callRiskAPI to either its success response or its call of
\* cancelPayPalOrder, which calls getAccessToken
\* a route that answers 403 on a denial without calling cancelPayPalOrder
OnRiskDeniedNoCancel(fl) ==
    Done([fl EXCEPT !.risk = "deny"],
         Failure(403, "Transaction not approved due to risk assessment"))

\* a route that calls cancelPayPalOrder without awaiting it
OnRiskDeniedNotAwaited(fl) ==
    Done([fl EXCEPT !.risk = "deny", !.fn = "cancel", !.inflight = @ \cup {"cancel"}],
         Failure(403, "Transaction not approved due to risk assessment"))

\* if (!isApproved) { await cancelPayPalOrder(order.id); ... }: the route
\* enters cancelPayPalOrder, which first calls getAccessToken
OnRiskDenied(fl) ==
    [fl EXCEPT !.pc = "token", !.fn = "cancel", !.http = "", !.risk = "deny"]

\* a route that cancels the order whatever callRiskAPI answered
RiskCheckCancelsAll(fl, isApproved) ==
    [fl EXCEPT !.pc = "token", !.fn = "cancel", !.http = "",
               !.risk = IF isApproved THEN "approve" ELSE "deny"]

\* a route that returns the order whatever callRiskAPI answered
RiskCheckIgnored(fl, isApproved) ==
    Done([fl EXCEPT !.risk = "approve"],
         [NoResp EXCEPT !.status = 200, !.success = "true", !.orderID = fl.orderID])

\* the route from callRiskAPI(order.id, amount) to either its success
\* response or its call of cancelPayPalOrder
RiskCheck(fl, isApproved) ==
    IF ~isApproved
    THEN OnRiskDenied(fl)
    ELSE Done([fl EXCEPT !.risk = "approve"],
              [NoResp EXCEPT !.status = 200, !.success = "true",
                             !.orderID = fl.orderID])

\* createPayPalOrder from the response of /v2/checkout/orders on, and the
\* route up to its next suspension point
CreateResponse(f, http, rnd, threw) ==
    LET fl == [flows[f] EXCEPT !.http = http, !.inflight = @ \ {"create"}]
        order == [fl EXCEPT !.orderID = OrderIdOf(nextOrder), !.riskThrew = threw,
                            !.riskCalls = @ + 1]
        isApproved == callRiskAPI(fl.amount, rnd, threw)
    IN  /\ flows[f].pc = "call" /\ flows[f].fn = "create"
        /\ http \in {"ok", "error", "neterr"}
        /\ IF http = "ok"
           THEN /\ nextOrder <= MaxOrders
                /\ nextOrder' = nextOrder + 1
                /\ riskLog' = riskLog \cup {<<order.orderID, isApproved>>}
                /\ Proceed(f, RiskCheck(order, isApproved))
           ELSE /\ ~rnd /\ ~threw
                /\ flows' = [flows EXCEPT ![f] = CreateThrew(fl)]
                /\ UNCHANGED <<nextOrder, riskLog, tokenSeq, captureCalls, cancelCalls>>
        /\ UNCHANGED sessVars
        /\ UNCHANGED <<now, credsSet, tokenCache>>

\* cancelPayPalOrder from the response of the PATCH on: every outcome is
\* logged and swallowed
CancelResponse(f, http) ==
    LET fl == flows[f]
    IN  /\ fl.pc = "call" /\ fl.fn = "cancel"
        /\ http \in {"ok", "error", "neterr"}
        /\ flows' = [flows EXCEPT ![f] =
                CancelReturned([fl EXCEPT !.http = http, !.inflight = @ \ {"cancel"}])]
        /\ UNCHANGED sessVars
        /\ UNCHANGED <<now, credsSet, tokenCache, tokenSeq, nextOrder,
                       riskLog, captureCalls, cancelCalls>>

\* ------------------------------------------ POST /api/paypal/capture-order
\* the route up to its call of capturePayPalOrder, which calls getAccessToken
CaptureRouteEntry(body) ==
    LET fl == [IdleFlow EXCEPT !.kind = "capture"]
    IN  IF ~body.json
        THEN Done(fl, Failure(500, "Unexpected end of JSON input"))
        ELSE IF body.orderID = <<>>
        THEN Done(fl, Failure(400, "Order ID is required"))
        ELSE IF ~OrderIdFormatOk(body.orderID)
        THEN Done(fl, Failure(400, "Invalid order ID format"))
        ELSE [fl EXCEPT !.pc = "token", !.fn = "capture", !.orderID = body.orderID]

\* a request arrives at the capture-order route
StartCapture(f, body) ==
    /\ flows[f].pc = "idle"
    /\ body \in CaptureBodies
    /\ Proceed(f, CaptureRouteEntry(body))
    /\ UNCHANGED sessVars
    /\ UNCHANGED <<now, credsSet, tokenCache, nextOrder, riskLog>>

\* captureData.purchase_units?.[0]?.payments?.captures?.[0], as a sequence of
\* at most one capture record
FirstCapture(captureData) ==
    IF Len(captureData.units) = 0 THEN <<>>
    ELSE IF Len(captureData.units[1].captures) = 0 THEN <<>>
    ELSE <<captureData.units[1].captures[1]>>

\* a status test that only asks for a capture record
CaptureMissingOnly(capture) == Len(capture) = 0

\* !capture || capture.status !== 'COMPLETED'
CaptureNotCompleted(capture) ==
    Len(capture) = 0 \/ capture[1].status # "COMPLETED"

\* a success answer that leaves out the capture's amount and currency
CaptureSucceededBare(fl, capture) ==
    Done(fl, [NoResp EXCEPT !.status = 200, !.success = "true",
                            !.orderID = fl.orderID,
                            !.capStatus = capture[1].status])

\* capturePayPalOrder returned {success: true, ...}; the route answers with
\* its status, amount and currency (capture.status, capture.amount?.value,
\* capture.amount?.currency_code)
CaptureSucceeded(fl, capture) ==
    Done(fl, [NoResp EXCEPT !.status = 200, !.success = "true",
                            !.orderID = fl.orderID,
                            !.capStatus = capture[1].status,
                            !.amount = capture[1].amount,
                            !.currency = capture[1].currency])

\* capturePayPalOrder from the response of the capture call on, and the
\* route's answer
CaptureResponse(f, r) ==
    LET fl == [flows[f] EXCEPT !.captureData = r, !.http = r.http,
                               !.inflight = @ \ {"capture"}]
        capture == FirstCapture(r)
    IN  /\ flows[f].pc = "call" /\ flows[f].fn = "capture"
        /\ r \in CaptureResponses
        /\ flows' = [flows EXCEPT ![f] =
             IF r.http # "ok" \/ CaptureNotCompleted(capture)
             THEN CaptureFailed(fl)
             ELSE CaptureSucceeded(fl, capture)]
        /\ UNCHANGED sessVars
        /\ UNCHANGED <<now, credsSet, tokenCache, tokenSeq, nextOrder,
                       riskLog, captureCalls, cancelCalls>>

\* ----------------------------------------------- POST /api/paypal/webhook
\* !transmissionId || !transmissionTime || !certUrl || !transmissionSig
MissingWebhookHeaders(hdrs) ==
    \/ "paypal-transmission-id" \notin hdrs
    \/ "paypal-transmission-time" \notin hdrs
    \/ "paypal-cert-url" \notin hdrs
    \/ "paypal-transmission-sig" \notin hdrs

\* the route up to its call of verifyWebhookSignature, which calls
\* getAccessToken
StartWebhook(f, hdrs, json, event) ==
    LET fl == [flows[f] EXCEPT !.kind = "webhook", !.hdrs = hdrs]
    IN  /\ flows[f].pc = "idle"
        /\ hdrs \in HeaderInputs /\ json \in BOOLEAN /\ event \in EventInputs
        /\ Proceed(f,
             IF MissingWebhookHeaders(hdrs)
             THEN Done(fl, WebhookError(400, "Missing webhook headers"))
             ELSE IF ~json
             THEN Done(fl, WebhookError(500, "Unexpected end of JSON input"))
             ELSE [fl EXCEPT !.pc = "token", !.fn = "verify", !.event = event])
        /\ UNCHANGED sessVars
        /\ UNCHANGED <<now, credsSet, tokenCache, nextOrder, riskLog>>

\* a verifyWebhookSignature that trusts every answer with a success status
VerifyOutcomeAnyOk(r) == r.http = "ok"

\* verifyWebhookSignature from the response of the verification call on
VerifyOutcome(r) == r.http = "ok" /\ r.verification_status = "SUCCESS"

VerifyResponse(f, r) ==
    LET fl == flows[f]
    IN  /\ fl.pc = "call" /\ fl.fn = "verify"
        /\ r \in VerifyResponses
        /\ flows' = [flows EXCEPT ![f] =
                VerifyReturned([fl EXCEPT !.http = r.http,
                                          !.vstatus = r.verification_status,
                                          !.inflight = @ \ {"verify"}],
                               VerifyOutcome(r))]
        /\ UNCHANGED sessVars
        /\ UNCHANGED <<now, credsSet, tokenCache, tokenSeq, nextOrder,
                       riskLog, captureCalls, cancelCalls>>

\* ------------------------------------------------------------ environment
\* one second passes
Tick ==
    /\ now < MaxTicks * MsPerSec
    /\ now' = now + MsPerSec
    /\ UNCHANGED <<credsSet, tokenCache, tokenSeq, nextOrder, flows,
                   riskLog, captureCalls, cancelCalls>>
    /\ UNCHANGED sessVars

\* ------------------------------------------------- the checkout page
\* what the form sends: isFormValid holds of it, and the risk check may go
\* either way
FormBodies ==
    { [json |-> TRUE, amount |-> <<"5", "0", "0", ".", "0", "0">>, currency |-> "USD",
       email |-> <<"a", "@", "b">>] }

\* the isProcessing value the rendered callbacks closed over
Captured == CHOOSE b \in buttons : TRUE

Outstanding(h) == \E g \in Handlers \ {h} : handlers[g].pc = "await"

\* script.onload -> initializePayPal(): the Buttons are rendered with the
\* callbacks of the render whose effect loaded the script
LoadButtons ==
    /\ buttons' = {isProcessing}
    /\ UNCHANGED <<now, credsSet, tokenCache, tokenSeq, nextOrder, flows, riskLog,
                   captureCalls, cancelCalls, pubIdSet, isProcessing, error,
                   paymentResult, handlers, sdkOrders>>

\* if (isProcessing) throw new Error('Payment is already being processed')
CreateOrderGuard(captured) == captured

\* createOrder up to its await of fetch('/api/paypal/create-order'); f = 0 is
\* a fetch that will reject
CreateOrderBegin(h, f, body) ==
    LET hd == [IdleHandler EXCEPT !.kind = "createOrder", !.overlapped = Outstanding(h)]
    IN  /\ buttons # {} /\ handlers[h].pc = "idle"
        /\ body \in FormBodies /\ f \in Flows \cup {0}
        /\ IF CreateOrderGuard(Captured)
           THEN /\ f = 0
                /\ handlers' = [handlers EXCEPT ![h] =
                        [hd EXCEPT !.pc = "done", !.outcome = "rejected"]]
                /\ UNCHANGED <<isProcessing, error, paymentResult, flows, tokenSeq,
                               captureCalls, cancelCalls>>
           ELSE IF ~pubIdSet
           THEN /\ f = 0
                /\ handlers' = [handlers EXCEPT ![h] =
                        [hd EXCEPT !.pc = "done", !.outcome = "threw"]]
                /\ isProcessing' = FALSE
                /\ error' = "PayPal configuration error: Client ID not found"
                /\ paymentResult' = <<>>
                /\ UNCHANGED <<flows, tokenSeq, captureCalls, cancelCalls>>
           ELSE /\ f # 0 => flows[f].pc = "idle"
                /\ handlers' = [handlers EXCEPT ![h] = [hd EXCEPT !.pc = "await", !.flow = f]]
                /\ isProcessing' = TRUE
                /\ error' = ""
                /\ paymentResult' = <<>>
                /\ IF f = 0
                   THEN UNCHANGED <<flows, tokenSeq, captureCalls, cancelCalls>>
                   ELSE Proceed(f, CreateRouteEntry(body))
        /\ UNCHANGED <<now, credsSet, tokenCache, nextOrder, riskLog, pubIdSet,
                       buttons, sdkOrders>>

\* createOrder from the response of its fetch on, with its finally block
CreateOrderEnd(h) ==
    LET hd == handlers[h]
        ok == hd.flow # 0 /\ flows[hd.flow].resp.success = "true"
    IN  /\ hd.kind = "createOrder" /\ hd.pc = "await"
        /\ hd.flow # 0 => flows[hd.flow].pc = "done"
        /\ handlers' = [handlers EXCEPT ![h] =
             IF ok THEN [hd EXCEPT !.pc = "done", !.outcome = "returned", !.flow = 0,
                                   !.orderID = flows[hd.flow].resp.orderID]
             ELSE [hd EXCEPT !.pc = "done", !.outcome = "threw", !.flow = 0]]
        /\ sdkOrders' = IF ok THEN sdkOrders \cup {flows[hd.flow].resp.orderID}
                        ELSE sdkOrders
        /\ error' = IF ok THEN error
                    ELSE IF hd.flow = 0 THEN "Failed to fetch"
                    ELSE flows[hd.flow].resp.error
        /\ isProcessing' = FALSE
        /\ flows' = IF hd.flow = 0 THEN flows ELSE [flows EXCEPT ![hd.flow] = IdleFlow]
        /\ UNCHANGED <<now, credsSet, tokenCache, tokenSeq, nextOrder, riskLog,
                       captureCalls, cancelCalls, pubIdSet, buttons, paymentResult>>

\* if (isProcessing) { setError(...); return; }
OnApproveGuard(captured) == captured

\* onApprove up to its await of fetch('/api/paypal/capture-order')
OnApproveBegin(h, f, oid) ==
    LET hd == [IdleHandler EXCEPT
                  !.kind = "onApprove", !.orderID = oid,
                  !.overlapped = Outstanding(h),
                  !.twin = \E g \in Handlers \ {h} :
                              /\ handlers[g].kind = "onApprove"
                              /\ handlers[g].pc = "await"
                              /\ handlers[g].orderID = oid]
    IN  /\ buttons # {} /\ handlers[h].pc = "idle"
        /\ oid \in sdkOrders /\ f \in Flows \cup {0}
        /\ IF OnApproveGuard(Captured)
           THEN /\ f = 0
                /\ handlers' = [handlers EXCEPT ![h] =
                        [hd EXCEPT !.pc = "done", !.outcome = "rejected"]]
                /\ error' = "Payment is already being processed"
                /\ UNCHANGED <<isProcessing, flows, tokenSeq, captureCalls, cancelCalls>>
           ELSE /\ f # 0 => flows[f].pc = "idle"
                /\ handlers' = [handlers EXCEPT ![h] = [hd EXCEPT !.pc = "await", !.flow = f]]
                /\ isProcessing' = TRUE
                /\ error' = ""
                /\ IF f = 0
                   THEN UNCHANGED <<flows, tokenSeq, captureCalls, cancelCalls>>
                   ELSE Proceed(f, CaptureRouteEntry([json |-> TRUE, orderID |-> oid]))
        /\ UNCHANGED <<now, credsSet, tokenCache, nextOrder, riskLog, pubIdSet,
                       buttons, paymentResult, sdkOrders>>

\* onApprove from the response of its fetch on, with its finally block
OnApproveEnd(h) ==
    LET hd == handlers[h]
        ok == hd.flow # 0 /\ flows[hd.flow].resp.success = "true"
    IN  /\ hd.kind = "onApprove" /\ hd.pc = "await"
        /\ hd.flow # 0 => flows[hd.flow].pc = "done"
        /\ handlers' = [handlers EXCEPT ![h] =
             [hd EXCEPT !.pc = "done", !.flow = 0,
                        !.outcome = IF ok THEN "captured" ELSE "failed"]]
        /\ paymentResult' = IF ok THEN flows[hd.flow].resp.orderID ELSE paymentResult
        /\ error' = IF ok THEN error
                    ELSE IF hd.flow = 0 THEN "Failed to fetch"
                    ELSE flows[hd.flow].resp.error
        /\ isProcessing' = FALSE
        /\ flows' = IF hd.flow = 0 THEN flows ELSE [flows EXCEPT ![hd.flow] = IdleFlow]
        /\ UNCHANGED <<now, credsSet, tokenCache, tokenSeq, nextOrder, riskLog,
                       captureCalls, cancelCalls, pubIdSet, buttons, sdkOrders>>

Next ==
    \/ \E f \in Flows, body \in CreateBodies : StartCreate(f, body)
    \/ \E f \in Flows, body \in CaptureBodies : StartCapture(f, body)
    \/ \E f \in Flows, hdrs \in HeaderInputs, json \in BOOLEAN, event \in EventInputs :
          StartWebhook(f, hdrs, json, event)
    \/ \E f \in Flows, r \in TokenResponses : GetTokenEnd(f, r)
    \/ \E f \in Flows, http \in {"ok", "error", "neterr"}, rnd \in BOOLEAN,
          threw \in BOOLEAN : CreateResponse(f, http, rnd, threw)
    \/ \E f \in Flows, http \in {"ok", "error", "neterr"} : CancelResponse(f, http)
    \/ \E f \in Flows, r \in CaptureResponses : CaptureResponse(f, r)
    \/ \E f \in Flows, r \in VerifyResponses : VerifyResponse(f, r)
    \/ Tick

Spec == Init /\ [][Next]_vars

\* ---------------------------------------------------- one checkout session
\* the routes are reached only through the page's callbacks
SessionInit == InitCore /\ pubIdSet \in BOOLEAN

\* the processor's answers during the session: each call either succeeds or
\* fails in transport, and the clock stays within the token's lifetime
SessionTokenResponses == { r \in TokenResponses : r.http \in {"ok", "neterr"} }
SessionCaptureResponses ==
    { r \in CaptureResponses :
        r.http = "neterr" \/ (r.http = "ok" /\ ~CaptureNotCompleted(FirstCapture(r))) }

SessionNext ==
    \/ LoadButtons
    \/ \E h \in Handlers, f \in Flows \cup {0}, body \in FormBodies :
          CreateOrderBegin(h, f, body)
    \/ \E h \in Handlers : CreateOrderEnd(h)
    \/ \E h \in Handlers, f \in Flows \cup {0}, oid \in sdkOrders :
          OnApproveBegin(h, f, oid)
    \/ \E h \in Handlers : OnApproveEnd(h)
    \/ \E f \in Flows, r \in SessionTokenResponses : GetTokenEnd(f, r)
    \/ \E f \in Flows, http \in {"ok", "neterr"}, rnd \in BOOLEAN :
          CreateResponse(f, http, rnd, FALSE)
    \/ \E f \in Flows : CancelResponse(f, "ok")
    \/ \E f \in Flows, r \in SessionCaptureResponses : CaptureResponse(f, r)

SessionSpec == SessionInit /\ [][SessionNext]_vars

\* =================================================================== claims
RiskDenied(fl) == fl.kind = "create" /\ fl.pc = "done" /\ fl.risk = "deny"

RiskRejectedResponse == Failure(403, "Transaction not approved due to risk assessment")

ValidationErrors ==
    { "Amount is required", "Invalid amount format", "Invalid email format" }

\* C1: the processor's capture endpoint is called for an order id only if a
\* risk assessment of that order id returned approve.
C1_CaptureOnlyAfterApprove ==
    \A o \in captureCalls : <<o, TRUE>> \in riskLog

\* C3: a getAccessToken call made before the cached token's expiry-minus-margin
\* instant issues no token request and returns the cached token; a call made
\* after it issues exactly one token request, and when that request succeeds
\* the cache holds its token right after the write.
C3_TokenReuse ==
    \A f \in Flows :
        LET t == flows[f].tok
        IN  /\ t.pos = "before" => t.reqs = 0 /\ t.ret = t.seen /\ t.ret # 0
            /\ t.pos = "after" => t.reqs = 1
            /\ t.pos = "after" /\ t.ret # 0 => t.wrote = t.ret /\ t.ret # t.seen

C3_Witness ==
    /\ \E f \in Flows : flows[f].tok.pos = "before" /\ flows[f].tok.reqs = 0
    /\ \E f \in Flows : /\ flows[f].tok.pos = "after" /\ flows[f].tok.reqs = 1
                         /\ flows[f].tok.ret # 0 /\ CachedToken = flows[f].tok.ret

\* C4: a response to an earlier-issued token request never overwrites the
\* cached response to a later-issued one.
C4_NoStaleOverwrite ==
    [][tokenCache # {} /\ tokenCache' # {} => CachedToken' >= CachedToken]_vars

\* C5: getAccessToken returns the cached token without a network call only
\* while now < created_at + expires_in - 60 s; at that instant and later the
\* cached token is not returned.
C5_CachedOnlyBeforeMargin ==
    \A f \in Flows :
        LET t == flows[f].tok
        IN  t.reqs = 0 /\ t.ret # 0 => t.pos = "before"

\* C6: whenever the risk evaluation returns deny, the processor's cancel
\* endpoint is called for that order id before the response is produced, and
\* the response is a failure whose status (403) differs from the status of
\* every input-validation failure (400).
C6_DenyCallsCancelEndpoint ==
    \A f \in Flows :
        RiskDenied(flows[f]) =>
            /\ "cancel" \in flows[f].called
            /\ flows[f].orderID \in cancelCalls
            /\ flows[f].resp.success = "false"
            /\ \A g \in Flows :
                   flows[g].pc = "done" /\ flows[g].resp.error \in ValidationErrors
                      => flows[g].resp.status # flows[f].resp.status

\* C6 as amended: whenever the risk evaluation returns deny, cancelPayPalOrder
\* is entered for that order id before the response is produced and calls the
\* cancel endpoint for that id unless its token acquisition fails; no denied
\* order is answered before then, and the response is a failure with status
\* 403, while every input-validation failure has status 400.
C6_DenyAttemptsCancel ==
    \A f \in Flows :
        /\ flows[f].risk = "deny" =>
               /\ flows[f].fn = "cancel"
               /\ flows[f].pc \in {"token", "tokenWait", "call", "done"}
               /\ flows[f].pc = "call" => flows[f].orderID \in cancelCalls
        /\ RiskDenied(flows[f]) =>
               /\ flows[f].tok.pos # ""
               /\ flows[f].tok.ret # 0 =>
                      "cancel" \in flows[f].called /\ flows[f].orderID \in cancelCalls
               /\ flows[f].resp.success = "false"
               /\ flows[f].resp.status = 403
        /\ flows[f].pc = "done" /\ flows[f].resp.error \in ValidationErrors =>
               flows[f].resp.status = 400

C6_Witness ==
    \E f \in Flows :
        /\ RiskDenied(flows[f])
        /\ flows[f].amount = <<"5", "0", "0", ".", "0", "0">>
        /\ flows[f].orderID \in cancelCalls
        /\ flows[f].http = "ok"

\* C7: after a risk denial, a failure of the cancellation step (token
\* acquisition, transport, or a non-success status) leaves the outcome
\* unchanged: the route still answers the risk-rejected failure (403).
C7_CancelFailureKeepsOutcome ==
    \A f \in Flows : RiskDenied(flows[f]) => flows[f].resp = RiskRejectedResponse

C7_Witness ==
    /\ \E f \in Flows : RiskDenied(flows[f]) /\ flows[f].tok.ret = 0
    /\ \E f \in Flows : RiskDenied(flows[f]) /\ flows[f].http \in {"error", "neterr"}

\* C8: if order creation succeeds but the risk assessment itself throws, the
\* risk result is deny, cancellation of that order is attempted, and the order
\* id is never returned as an approved create-order result.
C8_RiskFailureRejects ==
    \A f \in Flows :
        flows[f].riskThrew =>
            /\ flows[f].risk = "deny"
            /\ <<flows[f].orderID, FALSE>> \in riskLog
            /\ <<flows[f].orderID, TRUE>> \notin riskLog
            /\ flows[f].fn = "cancel"
            /\ \A g \in Flows :
                   ~(flows[g].kind = "create" /\ flows[g].resp.success = "true"
                     /\ flows[g].resp.orderID = flows[f].orderID)

C8_Witness ==
    \E f \in Flows :
        flows[f].riskThrew /\ flows[f].pc = "done" /\ flows[f].orderID \in cancelCalls

\* C9: a capture is reported as success only if the processor's response has
\* a first purchase unit whose first capture record has status COMPLETED; a
\* missing capture record or any other status yields a failure.
C9_SuccessOnlyIfCompleted ==
    \A f \in Flows :
        LET fl == flows[f]
            completed ==
                /\ fl.captureData.http = "ok"
                /\ Len(fl.captureData.units) > 0
                /\ Len(fl.captureData.units[1].captures) > 0
                /\ fl.captureData.units[1].captures[1].status = "COMPLETED"
        IN  fl.kind = "capture" /\ fl.pc = "done" =>
                /\ fl.resp.success \in {"true", "false"}
                /\ fl.resp.success = "true" => completed /\ fl.resp.capStatus = "COMPLETED"
                /\ ~completed => fl.resp.success = "false"

C9_Witness ==
    /\ \E f \in Flows : /\ flows[f].kind = "capture" /\ flows[f].resp.success = "true"
    /\ \E f \in Flows : /\ flows[f].kind = "capture" /\ flows[f].pc = "done"
                         /\ flows[f].captureData.http = "ok"
                         /\ Len(flows[f].captureData.units) > 0
                         /\ Len(flows[f].captureData.units[1].captures) > 0
                         /\ flows[f].captureData.units[1].captures[1].status = "PENDING"

\* C10: a webhook request in which any one of the five transmission headers
\* is absent is rejected without a call to the signature-verification
\* endpoint and without a token fetch on its behalf.
C10_MissingHeaderNeverVerified ==
    \A f \in Flows :
        flows[f].kind = "webhook" /\ flows[f].hdrs # WebhookHeaders =>
            /\ "verify" \notin flows[f].called
            /\ flows[f].tok = NoTok
            /\ flows[f].pc = "done"


\* C2: when two onApprove invocations for the same order run concurrently in
\* one checkout session, the second is rejected with 'Payment is already
\* being processed' and issues no request, so only one request reaches the
\* capture endpoint.
C2_SecondApproveRejected ==
    \A h \in Handlers :
        handlers[h].kind = "onApprove" /\ handlers[h].twin =>
            /\ handlers[h].outcome = "rejected"
            /\ handlers[h].flow = 0

\* a webhook flow whose route called verifyWebhookSignature, which returned
Verified(fl) == fl.kind = "webhook" /\ fl.fn = "verify" /\ fl.pc = "done"

\* C11: verifyWebhookSignature never throws: every call of it ends with a
\* boolean, which is true exactly when the token was obtained and the
\* verification endpoint answered with a success status and
\* verification_status "SUCCESS"; token failure, transport failure, a
\* non-success status and any other verification_status give false.
C11_VerifyIsBoolean ==
    \A f \in Flows :
        LET fl == flows[f]
        IN  Verified(fl) =>
              /\ fl.isValid \in {"true", "false"}
              /\ fl.isValid = "true" <=>
                     /\ fl.tok.ret # 0
                     /\ fl.http = "ok"
                     /\ fl.vstatus = "SUCCESS"
              /\ fl.resp.error # "Failed to authenticate with PayPal"

C11_Witness ==
    /\ \E f \in Flows : Verified(flows[f]) /\ flows[f].isValid = "true"
    /\ \E f \in Flows : /\ Verified(flows[f]) /\ flows[f].isValid = "false"
                         /\ flows[f].http = "ok" /\ flows[f].vstatus = "FAILURE"

\* C12: the webhook route dispatches on the event type and acknowledges with
\* {success: true} only after verifyWebhookSignature returned true for that
\* event; an event whose verification returned false is answered 401 and is
\* never dispatched.
C12_DispatchOnlyIfVerified ==
    \A f \in Flows :
        LET fl == flows[f]
        IN  fl.kind = "webhook" =>
              /\ fl.dispatched \/ fl.resp.success = "true" => fl.isValid = "true"
              /\ fl.isValid = "false" =>
                     /\ fl.resp = WebhookError(401, "Invalid webhook signature")
                     /\ ~fl.dispatched

C12_Witness ==
    /\ \E f \in Flows : flows[f].kind = "webhook" /\ flows[f].dispatched
    /\ \E f \in Flows : /\ flows[f].kind = "webhook" /\ flows[f].isValid = "false"
                         /\ flows[f].resp.status = 401

\* C13: every execution of the create-order and capture-order routes, for
\* any request body and any outcome of the token, create, risk, cancel and
\* capture calls, is either waiting for the answer of an outbound call or has
\* answered with a response whose success field is a boolean; no exception
\* escapes the route handler.
C13_RoutesAnswerWithSuccessField ==
    \A f \in Flows :
        LET fl == flows[f]
        IN  fl.kind \in {"create", "capture"} =>
              /\ fl.pc \in {"tokenWait", "call", "done"}
              /\ fl.pc = "done" =>
                     /\ fl.resp.success \in {"true", "false"}
                     /\ fl.resp.status \in {200, 400, 403, 500}
                     /\ fl.resp.success = "true" <=> fl.resp.status = 200

C13_Witness ==
    /\ \E f \in Flows : /\ flows[f].kind = "create" /\ flows[f].pc = "done"
                         /\ flows[f].http = "neterr" /\ flows[f].resp.status = 500
    /\ \E f \in Flows : /\ flows[f].kind = "capture" /\ flows[f].pc = "done"
                         /\ flows[f].tok.pos # "" /\ flows[f].tok.ret = 0
                         /\ flows[f].resp.success = "false"

\* C14: a failing getAccessToken tells its caller which kind of failure
\* occurred: calls that failed for different reasons (missing credentials,
\* a non-success status of the token endpoint, a transport failure) hand
\* their callers different errors.
C14_TokenFailuresDistinguishable ==
    \A f, g \in Flows :
        /\ flows[f].tok.cause # "" /\ flows[g].tok.cause # ""
        /\ flows[f].tok.cause # flows[g].tok.cause
        => flows[f].tok.err # flows[g].tok.err

\* the route answered after the outbound call named fn failed in transport
TransportFailure(fl, fn) ==
    fl.pc = "done" /\ fl.fn = fn /\ fn \in fl.called /\ fl.http = "neterr"

\* C15: a transport failure of an outbound processor call reaches the caller
\* as an outcome that differs from the business failures: a capture that
\* failed in transport differs from a capture that was not completed, and a
\* create that failed in transport differs from a create the processor
\* rejected and from a risk rejection.
C15_TransportFailureDistinguishable ==
    \A f, g \in Flows :
        /\ /\ TransportFailure(flows[f], "capture")
           /\ flows[g].kind = "capture" /\ flows[g].pc = "done"
           /\ flows[g].http = "ok" /\ flows[g].resp.success = "false"
           => flows[f].resp # flows[g].resp
        /\ /\ TransportFailure(flows[f], "create")
           /\ flows[g].kind = "create" /\ flows[g].pc = "done"
           /\ \/ flows[g].fn = "create" /\ flows[g].http = "error"
              \/ flows[g].risk = "deny"
           => flows[f].resp # flows[g].resp

\* the codes of the checkout page's currencies list
SupportedCurrencies ==
    { "USD", "EUR", "GBP", "AUD", "CAD", "JPY", "CNY", "INR", "BRL", "MXN" }

\* a strictly positive decimal string with exactly two decimals
PositiveScaledAmount(s) ==
    /\ AmountFormatOk(s)
    /\ DotAt(s) > 1
    /\ parseFloatCents(s) > 0

\* C16: the create-order flow calls the processor's order-creation endpoint
\* only for requests whose amount is a strictly positive decimal string with
\* two decimals and whose currency is one of the supported currencies; every
\* other request is rejected before any outbound call.
C16_CreateOnlyForValidRequests ==
    \A f \in Flows :
        /\ flows[f].kind = "create"
        /\ flows[f].tok.reqs > 0 \/ "create" \in flows[f].called
        =>  /\ PositiveScaledAmount(flows[f].amount)
            /\ flows[f].currency \in SupportedCurrencies

\* C17: for every order id a successful create-then-approve flow returned,
\* over any sequence of capture calls for that id at most one capture call
\* returns success; every further capture call for the id returns a failure.
C17_OrderCapturedOnce ==
    \A h, g \in Handlers :
        /\ handlers[h].kind = "onApprove" /\ handlers[h].outcome = "captured"
        /\ handlers[g].kind = "onApprove" /\ handlers[g].outcome = "captured"
        /\ handlers[h].orderID = handlers[g].orderID
        => h = g

\* C18: while a create or capture request of the checkout session is
\* outstanding, a second createOrder attempt is rejected at once with
\* 'Payment is already being processed': it issues no request to the
\* create-order route and is not left waiting.
C18_SecondCreateRejected ==
    \A h \in Handlers :
        handlers[h].kind = "createOrder" /\ handlers[h].overlapped =>
            /\ handlers[h].pc = "done"
            /\ handlers[h].outcome = "rejected"

\* a capture flow that called the capture endpoint and answered a failure
CaptureCallFailed(fl) ==
    /\ fl.kind = "capture" /\ fl.pc = "done"
    /\ fl.captureData # NoCaptureData
    /\ fl.resp.success = "false"

\* C19: when the processor answers a capture call with a duplicate-capture
\* (already captured) error, the outcome returned to the caller is a failure
\* that differs from the other capture failures (capture not completed,
\* transport failure); it is a success only if the response itself carries a
\* COMPLETED capture.
C19_AlreadyCapturedDistinguishable ==
    \A f, g \in Flows :
        /\ flows[f].captureData.issue = "ORDER_ALREADY_CAPTURED" =>
               flows[f].resp.success = "false"
        /\ /\ CaptureCallFailed(flows[f]) /\ CaptureCallFailed(flows[g])
           /\ flows[f].captureData.issue = "ORDER_ALREADY_CAPTURED"
           /\ flows[g].captureData.issue # "ORDER_ALREADY_CAPTURED"
           => flows[f].resp # flows[g].resp

\* amounts a with 0 < a <= 10.00 that pass the route's format test
SmallAmounts ==
    { <<"0", ".", "0", "1">>, <<"1">>, <<"5", ".", "5", "0">>, <<"9", ".", "9", "9">>,
      <<"1", "0">>, <<"1", "0", ".", "0", "0">> }

\* callRiskAPI on each of them, for both outcomes of Math.random() > 0.05
SmallAmountsAllApproved ==
    \A a \in SmallAmounts, rnd \in BOOLEAN :
        /\ AmountFormatOk(a)
        /\ parseFloatCents(a) > 0 /\ parseFloatCents(a) <= RiskThresholdCents
        /\ callRiskAPI(a, rnd, FALSE)

\* C20: for every amount a with 0 < a <= 10.00 callRiskAPI returns approve
\* on every evaluation that runs its try block to the end, whatever the
\* order id and whatever Math.random() gives.
C20_SmallAmountsApproved ==
    /\ SmallAmountsAllApproved
    /\ \A f \in Flows :
           /\ flows[f].kind = "create" /\ flows[f].orderID # <<>>
           /\ ~flows[f].riskThrew
           /\ parseFloatCents(flows[f].amount) > 0
           /\ parseFloatCents(flows[f].amount) <= RiskThresholdCents
           => /\ flows[f].risk = "approve"
              /\ <<flows[f].orderID, TRUE>> \in riskLog
              /\ <<flows[f].orderID, FALSE>> \notin riskLog

C20_Witness ==
    \E f, g \in Flows :
        /\ flows[f].risk = "approve" /\ flows[g].risk = "approve"
        /\ flows[f].amount = <<"1", "0", ".", "0", "0">>
        /\ flows[g].amount = <<"1", "0", ".", "0", "0">>
        /\ flows[f].orderID = OrderIdOf(1) /\ flows[g].orderID = OrderIdOf(2)

\* C21: for a valid create request with amount at or below the risk
\* threshold, when the token exchange and the order creation succeed (and the
\* risk evaluation runs to its end) the create route returns success with the
\* order id the processor assigned; when a capture call returns a first
\* capture record with status COMPLETED the capture route returns success
\* with that record's status, amount and currency.
C21_HappyPath ==
    \A f \in Flows :
        LET fl == flows[f]
        IN  /\ /\ fl.kind = "create" /\ fl.pc = "done"
               /\ fl.orderID # <<>> /\ ~fl.riskThrew
               /\ parseFloatCents(fl.amount) <= RiskThresholdCents
               => /\ fl.resp.status = 200 /\ fl.resp.success = "true"
                  /\ fl.resp.orderID = fl.orderID
                  /\ \E n \in 1..MaxOrders : fl.orderID = OrderIdOf(n)
            /\ /\ fl.kind = "capture" /\ fl.pc = "done"
               /\ FirstCapture(fl.captureData) # <<>>
               /\ FirstCapture(fl.captureData)[1].status = "COMPLETED"
               => /\ fl.resp.status = 200 /\ fl.resp.success = "true"
                  /\ fl.resp.capStatus = "COMPLETED"
                  /\ fl.resp.amount = FirstCapture(fl.captureData)[1].amount
                  /\ fl.resp.currency = FirstCapture(fl.captureData)[1].currency

C21_Witness ==
    \E f, g \in Flows :
        /\ flows[f].kind = "create" /\ flows[f].resp.success = "true"
        /\ flows[f].amount = <<"1", "0", ".", "0", "0">> /\ flows[f].currency = "USD"
        /\ flows[g].kind = "capture" /\ flows[g].resp.success = "true"
        /\ flows[g].orderID = flows[f].resp.orderID
        /\ flows[g].resp.capStatus = "COMPLETED"
        /\ flows[g].resp.amount = <<"1", "0", ".", "0", "0">>
        /\ flows[g].resp.currency = "USD"

\* the flow answered after its token acquisition or its processor call
\* (fn) failed
ProviderFailure(fl, fn) ==
    /\ fl.pc = "done" /\ fl.fn = fn
    /\ \/ fl.tok.cause # ""
       \/ fn \in fl.called /\ fl.http \in {"error", "neterr"}

\* C22: the error responses of the create-order and capture-order routes
\* after a processor or authentication failure do not depend on the
\* processor's answer or on the configured credentials: any two executions
\* of the same route that failed this way answer identically, whatever the
\* error body, the status, or the reason the token could not be obtained.
C22_ErrorsIndependentOfProvider ==
    \A f, g \in Flows :
        /\ \E fn \in {"create", "capture"} :
               ProviderFailure(flows[f], fn) /\ ProviderFailure(flows[g], fn)
        => /\ flows[f].resp = flows[g].resp
           /\ flows[f].resp \in { Failure(500, "Failed to create PayPal order"),
                                  Failure(400, "Failed to capture payment") }

C22_Witness ==
    \E f, g \in Flows :
        /\ ProviderFailure(flows[f], "capture") /\ ProviderFailure(flows[g], "capture")
        /\ flows[f].orderID = flows[g].orderID
        /\ flows[f].captureData.issue = "ORDER_ALREADY_CAPTURED"
        /\ flows[g].captureData.http = "error" /\ flows[g].captureData.issue = ""

\* C23: the create-order route returns {success: true, orderID} only if the
\* risk gate was evaluated for that very order id in the same request, after
\* the processor created the order, and returned approve; a create request
\* that reaches the risk step evaluates the gate exactly once, and no decision
\* serves two orders or two requests.
C23_FreshRiskDecision ==
    \A f \in Flows :
        LET fl == flows[f]
        IN  fl.kind = "create" =>
              /\ fl.resp.success = "true" =>
                     /\ fl.risk = "approve"
                     /\ fl.resp.orderID = fl.orderID
                     /\ <<fl.orderID, TRUE>> \in riskLog
                     /\ <<fl.orderID, FALSE>> \notin riskLog
              /\ fl.risk # "none" <=> fl.riskCalls = 1
              /\ fl.riskCalls \in {0, 1}
              /\ fl.riskCalls = 1 =>
                     /\ "create" \in fl.called /\ fl.orderID # <<>>
                     /\ \A g \in Flows \ {f} :
                            flows[g].kind = "create" => flows[g].orderID # fl.orderID

C23_Witness ==
    \E f, g \in Flows :
        /\ f # g
        /\ flows[f].kind = "create" /\ flows[f].resp.success = "true"
        /\ flows[g].kind = "create" /\ flows[g].pc = "done" /\ flows[g].risk = "deny"
        /\ flows[f].amount = flows[g].amount

\* C24: within one create-order flow the outbound steps are strictly
\* sequential: the order-creation call is issued only after the flow's token
\* fetch resolved, the risk evaluation only after order creation returned an
\* id, the cancel call only after the risk evaluation returned deny, and the
\* response only after every issued step completed; no two outbound calls of
\* one flow are in flight at once.
C24_SequentialSteps ==
    \A f \in Flows :
        LET fl == flows[f]
        IN  fl.kind = "create" =>
              /\ Cardinality(fl.inflight) <= 1
              /\ "create" \in fl.inflight => fl.tok.ret # 0 /\ fl.pc = "call"
              /\ fl.riskCalls > 0 =>
                     /\ "create" \in fl.called /\ "create" \notin fl.inflight
                     /\ fl.orderID # <<>>
              /\ "cancel" \in fl.called \/ "cancel" \in fl.inflight => fl.risk = "deny"
              /\ "cancel" \in fl.inflight => fl.tok.ret # 0 /\ fl.pc = "call"
              /\ fl.pc = "tokenWait" <=> fl.inflight = {"token"}
              /\ fl.pc = "done" => fl.inflight = {}

C24_Witness ==
    \E f \in Flows :
        /\ flows[f].kind = "create" /\ flows[f].pc = "done"
        /\ flows[f].called = {"create", "cancel"}
        /\ flows[f].tok.reqs = 1

\* C25: the token cache has a single writer: across all concurrent flows at
\* most one token-endpoint exchange is in progress at any time, so callers
\* that all find the cache empty or expired cause one refresh, not one each.
C25_SingleTokenExchange ==
    Cardinality({ f \in Flows : "token" \in flows[f].inflight }) <= 1

\* C26: a getAccessToken call that fails (missing credentials, a non-success
\* status, a transport failure) leaves the token cache as it was and returns
\* no token, not even the expired one it found cached; the cache changes only
\* in the step in which a call receives a successful token response, and
\* then holds that response's token.
C26_FailedCallKeepsCache ==
    [][/\ \A f \in Flows :
              flows[f].tok.cause = "" /\ flows'[f].tok.cause # "" =>
                  /\ tokenCache' = tokenCache
                  /\ flows'[f].tok.ret = 0
       /\ tokenCache' # tokenCache =>
              \E f \in Flows :
                  /\ flows[f].pc = "tokenWait"
                  /\ flows'[f].tok.cause = ""
                  /\ flows'[f].tok.ret = flows[f].tokReq
                  /\ CachedToken' = flows[f].tokReq]_vars

C26_Witness ==
    \E f \in Flows :
        /\ flows[f].tok.cause \in {"status", "transport"}
        /\ flows[f].tok.pos = "after"
        /\ flows[f].tok.seen # 0 /\ CachedToken = flows[f].tok.seen
        /\ flows[f].tok.ret = 0

\* C27: the processor's cancel endpoint is called for an order id only if
\* the risk evaluation of that id, in the create flow that created it,
\* returned deny; an order whose decision was approve is never cancelled, and
\* no order is both returned as approved and cancelled.
C27_CancelOnlyAfterDeny ==
    /\ \A o \in cancelCalls :
           /\ <<o, FALSE>> \in riskLog
           /\ <<o, TRUE>> \notin riskLog
           /\ \E f \in Flows :
                  /\ flows[f].kind = "create" /\ flows[f].orderID = o
                  /\ flows[f].risk = "deny" /\ "cancel" \in flows[f].called
    /\ \A f \in Flows :
           flows[f].kind = "create" /\ flows[f].resp.success = "true" =>
               flows[f].resp.orderID \notin cancelCalls

C27_Witness ==
    \E f, g \in Flows :
        /\ flows[f].kind = "create" /\ flows[f].orderID \in cancelCalls
        /\ flows[g].kind = "create" /\ flows[g].resp.success = "true"
        /\ flows[g].amount = <<"5", "0", "0", ".", "0", "0">>

\* the flag half of C28 alone: with no request of the session outstanding
\* the in-progress flag is clear
FlagClearWhenIdle ==
    (\A h \in Handlers : handlers[h].pc # "await") => ~isProcessing

\* C28: every createOrder or onApprove invocation that sets the session's
\* in-progress flag clears it again, whether its request succeeds, fails or
\* throws: once no create or capture request of the session is outstanding
\* the flag is clear, and an attempt made then is not rejected as already
\* being processed.
C28_FlagClearedAttemptsAdmitted ==
    /\ FlagClearWhenIdle
    /\ \A h \in Handlers :
           handlers[h].outcome = "rejected" => handlers[h].overlapped

====
